---- MODULE Spec2Model ----
(***************************************************************************)
(* The two Streamlit dashboards of the pastoralist conflict early-warning  *)
(* system: streamlit_app.py (hotspot map) and streamlit1_app.py            *)
(* (integrated hotspot + mobility anomaly map).                            *)
(*                                                                         *)
(* A Streamlit script runs top to bottom on every interaction, so every    *)
(* action below is "set a widget, then run the whole script".              *)
(*                                                                         *)
(* Units.  Probabilities and thresholds are in hundredths (0.6 is 60), a   *)
(* compound risk is in ten-thousandths (0.72 is 7200).  Coordinates are in *)
(* half degrees (lon 35.5 is 71); a map centre is the fraction num/den of  *)
(* half degrees, den = 0 standing for the NaN of an empty mean.            *)
(* A data frame is [cols, rows]: the column order and the rows in order,   *)
(* a row being a function from column name to value.                       *)
(***************************************************************************)
EXTENDS Integers, Sequences, FiniteSets, TLC

VARIABLES
    app,                \* which script this session runs
    files,              \* ../data/processed: the csv, the geojson, the boundary
    cache,              \* st.cache_data memo of load_data, per county
    county,             \* sidebar selectbox "County"
    threshold,          \* streamlit_app: slider "Alert Threshold"
    mode,               \* streamlit_app: selectbox "Map style"
    hotspot_threshold,  \* streamlit1_app: slider "Hotspot threshold"
    anomaly_threshold,  \* streamlit1_app: slider "Mobility anomaly threshold"
    layer_mode,         \* streamlit1_app: selectbox "View mode"
    status,             \* "init", "rendered", or "error" (exception shown)
    gdf,                \* the point frame after projection (and spatial filter)
    df,                 \* the table (streamlit1_app: after the merge)
    view,               \* gdf_view / df_view: the frame given to the map layer
    center,             \* center_lat / center_lon of the initial view state
    layers,             \* the deck's layers
    flagged,            \* streamlit_app: the count in the subheader
    shown,              \* the frame given to st.dataframe
    download            \* the data given to st.download_button

vars == <<app, files, cache, county, threshold, mode, hotspot_threshold,
          anomaly_threshold, layer_mode, status, gdf, df, view, center,
          layers, flagged, shown, download>>

-----------------------------------------------------------------------------
(* Bounds of the model *)

MaxCells == 2
MaxGeoRows == 2

-----------------------------------------------------------------------------
(* Constants of the scripts *)

COUNTIES == {"Wajir"}

SliderMin == 10
SliderMax == 90
SliderStep == 5
DefaultThreshold == 60
DefaultHotspotThreshold == 60
DefaultAnomalyThreshold == 50

MapStyles == {"Heatmap (smooth)", "Grid cells (squares)"}
ViewModes == {"Hotspot only", "Mobility anomaly only", "Combined risk"}

HeadRows == 20
HeadRows1 == 30

NaN == -1

Range(s) == {s[i] : i \in DOMAIN s}

Min(S) == CHOOSE m \in S : \A o \in S : m <= o
Max(S) == CHOOSE m \in S : \A o \in S : m >= o

EmptyFrame == [cols |-> <<>>, rows |-> <<>>]

-----------------------------------------------------------------------------
(* Files on disk and the readers *)

MissingCsv == [state |-> "missing", header |-> <<>>, lines |-> <<>>]
MissingGeojson == [state |-> "missing", features |-> <<>>]

\* pd.read_csv: the header names the columns, each line gives one row by position
read_csv(file) ==
    [cols |-> file.header,
     rows |-> [i \in 1..Len(file.lines) |->
                 [c \in Range(file.header) |->
                    file.lines[i][CHOOSE k \in 1..Len(file.header) : file.header[k] = c]]]]

\* DataFrame.to_csv(index=False): the header line, then each row by column position
to_csv(frame) ==
    [header |-> frame.cols,
     lines |-> [i \in 1..Len(frame.rows) |->
                  [k \in 1..Len(frame.cols) |-> frame.rows[i][frame.cols[k]]]]]

\* gpd.read_file of the point GeoJSON: the properties and the geometry column
read_file(file) ==
    [cols |-> <<"cell_id", "p_hotspot_next", "geometry">>,
     rows |-> file.features]

\* a dissolve that leaves the parts as separate features
dissolve_none(features) == features

\* GeoDataFrame.dissolve(): every feature unioned into one; nothing from nothing
dissolve(features) ==
    IF features = <<>> THEN <<>> ELSE << UNION Range(features) >>

NoBoundary == [available |-> FALSE, features |-> <<>>]

\* the try/except around the boundary read; available = FALSE is boundary = None
read_boundary(file) ==
    IF file.state = "ok"
    THEN [available |-> TRUE, features |-> dissolve(file.features)]
    ELSE NoBoundary

NotLoaded ==
    [loaded |-> FALSE, raised |-> FALSE, gdf_points |-> EmptyFrame,
     df_table |-> EmptyFrame, boundary |-> NoBoundary]

\* a load_data whose boundary read is outside the try block
load_data_boundary_required(fs) ==
    [loaded |-> TRUE,
     raised |-> fs.geojson.state # "ok" \/ fs.csv.state # "ok"
                \/ fs.boundary.state # "ok",
     gdf_points |-> read_file(fs.geojson),
     df_table |-> read_csv(fs.csv),
     boundary |-> read_boundary(fs.boundary)]

\* streamlit_app.load_data: the two required reads raise, the boundary read does not
load_data(fs) ==
    [loaded |-> TRUE,
     raised |-> fs.geojson.state # "ok" \/ fs.csv.state # "ok",
     gdf_points |-> read_file(fs.geojson),
     df_table |-> read_csv(fs.csv),
     boundary |-> read_boundary(fs.boundary)]

\* streamlit1_app.load_data: same files but the enhanced csv, bare except
load_data1(fs) ==
    [loaded |-> TRUE,
     raised |-> fs.csv.state # "ok" \/ fs.geojson.state # "ok",
     gdf_points |-> read_file(fs.geojson),
     df_table |-> read_csv(fs.csv),
     boundary |-> read_boundary(fs.boundary)]

-----------------------------------------------------------------------------
(* Frame operations *)

\* gdf.to_crs(4326).copy() then lon/lat from the geometry; GeoJSON is EPSG:4326
with_lonlat(frame) ==
    [cols |-> frame.cols \o <<"lon", "lat">>,
     rows |-> [i \in 1..Len(frame.rows) |->
                 frame.rows[i] @@ [lon |-> frame.rows[i].geometry[1],
                                   lat |-> frame.rows[i].geometry[2]]]]

\* `boundary is not None and len(boundary)`
has_boundary(boundary) == boundary.available /\ Len(boundary.features) > 0

\* predicate="within": the point lies in the interior of the polygon
within(point, polygon) == point \in polygon

RECURSIVE sjoin_rows(_, _)
sjoin_rows(left, right) ==
    IF left = <<>> THEN <<>>
    ELSE LET hits == SelectSeq(right, LAMBDA g : within(Head(left).geometry, g))
         IN  [k \in 1..Len(hits) |-> Head(left)] \o sjoin_rows(Tail(left), right)

\* gpd.sjoin(gdf, boundary, predicate="within", how="inner").drop("index_right")
sjoin(frame, boundary) ==
    [cols |-> frame.cols, rows |-> sjoin_rows(frame.rows, boundary.features)]

\* the spatial filter of streamlit_app
spatial_filter(frame, boundary) ==
    IF has_boundary(boundary) THEN sjoin(frame, boundary) ELSE frame

\* GeoSeries.total_bounds of polygons made of 1-degree cells centred on sites
polygon_bounds(features) ==
    LET cells == UNION Range(features)
    IN  << Min({c[1] : c \in cells}) - 1, Min({c[2] : c \in cells}) - 1,
           Max({c[1] : c \in cells}) + 1, Max({c[2] : c \in cells}) + 1 >>

\* GeoSeries.total_bounds of points
point_bounds(rows) ==
    LET pts == {rows[i].geometry : i \in DOMAIN rows}
    IN  << Min({c[1] : c \in pts}), Min({c[2] : c \in pts}),
           Max({c[1] : c \in pts}), Max({c[2] : c \in pts}) >>

DefaultBounds == <<70, 4, 74, 10>>

\* streamlit_app: boundary preferred, else points, else default
view_bounds(frame, boundary) ==
    IF has_boundary(boundary) THEN polygon_bounds(boundary.features)
    ELSE IF Len(frame.rows) > 0 THEN point_bounds(frame.rows)
    ELSE DefaultBounds

\* center_lat = (miny + maxy)/2, center_lon = (minx + maxx)/2
bounds_center(b) ==
    [lat |-> [num |-> b[2] + b[4], den |-> 2],
     lon |-> [num |-> b[1] + b[3], den |-> 2]]

NoCenter == [lat |-> [num |-> 0, den |-> 0], lon |-> [num |-> 0, den |-> 0]]

\* sort_values(col, ascending=False): stable insertion into a descending list
RECURSIVE sort_desc(_, _)
sort_desc(rows, col) ==
    IF rows = <<>> THEN <<>>
    ELSE LET rest == sort_desc(Tail(rows), col)
             h == Head(rows)
             before == SelectSeq(rest, LAMBDA r : r[col] > h[col])
             after == SelectSeq(rest, LAMBDA r : r[col] <= h[col])
         IN  before \o <<h>> \o after

sort_values(frame, col) == [cols |-> frame.cols, rows |-> sort_desc(frame.rows, col)]

\* DataFrame.head(n)
head(frame, n) ==
    [cols |-> frame.cols,
     rows |-> SubSeq(frame.rows, 1, IF Len(frame.rows) < n THEN Len(frame.rows) ELSE n)]


-----------------------------------------------------------------------------
(* streamlit_app.py: the script body *)

\* gdf[gdf["p_hotspot_next"] >= threshold].copy()
threshold_filter(frame, t) ==
    [cols |-> frame.cols,
     rows |-> SelectSeq(frame.rows, LAMBDA r : r.p_hotspot_next >= t)]

\* the deck.gl expression of the GridCellLayer: [r, g, b, alpha]
get_fill_color(p) ==
    << IF p >= 80 THEN 220 ELSE IF p >= 60 THEN 255 ELSE IF p >= 40 THEN 255 ELSE 150,
       IF p >= 80 THEN 50 ELSE IF p >= 60 THEN 127 ELSE IF p >= 40 THEN 215 ELSE 150,
       IF p >= 80 THEN 47 ELSE IF p >= 60 THEN 0 ELSE IF p >= 40 THEN 0 ELSE 150,
       200 >>

HeatmapLayer(weight) == [type |-> "HeatmapLayer", weight |-> weight, fill |-> <<>>]

GridCellLayer(frame) ==
    [type |-> "GridCellLayer", weight |-> "",
     fill |-> [i \in 1..Len(frame.rows) |-> get_fill_color(frame.rows[i].p_hotspot_next)]]

PolygonLayer == [type |-> "PolygonLayer", weight |-> "", fill |-> <<>>]

\* layers: heatmap or grid on gdf_view, then the boundary outline if there is one
map_layers(frame, boundary, style) ==
    << IF style = "Heatmap (smooth)"
       THEN HeatmapLayer("p_hotspot_next") ELSE GridCellLayer(frame) >>
    \o (IF has_boundary(boundary) THEN <<PolygonLayer>> ELSE <<>>)

\* the legend markdown: swatch colour (hex digits), the bucket [lo, hi) and label
Legend ==
    << [bg |-> <<"9","6","9","6","9","6">>, lo |-> 0,  hi |-> 40,  label |-> "Low"],
       [bg |-> <<"F","F","D","7","0","0">>, lo |-> 40, hi |-> 60,  label |-> "Moderate"],
       [bg |-> <<"F","F","7","F","0","0">>, lo |-> 60, hi |-> 80,  label |-> "High"],
       [bg |-> <<"D","C","3","2","3","0">>, lo |-> 80, hi |-> 101, label |-> "Very High"] >>

\* (gdf['p_hotspot_next'] >= threshold).sum()
flagged_count(frame, t) ==
    Len(SelectSeq(frame.rows, LAMBDA r : r.p_hotspot_next >= t))

\* st.dataframe(df.sort_values("p_hotspot_next", ascending=False).head(20))
table_shown(table) == head(sort_values(table, "p_hotspot_next"), HeadRows)

\* st.download_button(..., df.to_csv(index=False), ...)
download_data(table) == to_csv(table)

script(L, t, style) ==
    LET gdf1 == spatial_filter(with_lonlat(L.gdf_points), L.boundary)
        gdf_view == threshold_filter(gdf1, t)
    IN  [gdf |-> gdf1,
         df |-> L.df_table,
         view |-> gdf_view,
         center |-> bounds_center(view_bounds(gdf1, L.boundary)),
         layers |-> map_layers(gdf_view, L.boundary, style),
         flagged |-> flagged_count(gdf1, t),
         shown |-> table_shown(L.df_table),
         download |-> download_data(L.df_table)]

-----------------------------------------------------------------------------
(* streamlit1_app.py: the script body *)

RECURSIVE merge_rows(_, _)
merge_rows(left, right) ==
    IF left = <<>> THEN <<>>
    ELSE LET l == Head(left)
             hits == SelectSeq(right, LAMBDA r : r.cell_id = l.cell_id)
             joined == IF hits = <<>>
                       THEN << l @@ [lon |-> NaN, lat |-> NaN] >>
                       ELSE [k \in 1..Len(hits) |->
                               l @@ [lon |-> hits[k].lon, lat |-> hits[k].lat]]
         IN  joined \o merge_rows(Tail(left), right)

\* df.merge(gdf[["cell_id", "lon", "lat"]], on="cell_id", how="left")
merge(table, points) ==
    [cols |-> table.cols \o <<"lon", "lat">>,
     rows |-> merge_rows(table.rows, points.rows)]

\* the combined branch keeping a row that passes either threshold
threshold_filter1_or(frame, lm, ht, at) ==
    IF lm = "Hotspot only"
    THEN [cols |-> frame.cols, rows |-> SelectSeq(frame.rows, LAMBDA r : r.p_hotspot_next >= ht)]
    ELSE IF lm = "Mobility anomaly only"
    THEN [cols |-> frame.cols, rows |-> SelectSeq(frame.rows, LAMBDA r : r.anomaly_prob_norm >= at)]
    ELSE [cols |-> frame.cols, rows |-> SelectSeq(frame.rows, LAMBDA r : r.p_hotspot_next >= ht \/ r.anomaly_prob_norm >= at)]

\* the three branches on layer_mode over df.copy()
threshold_filter1(frame, lm, ht, at) ==
    IF lm = "Hotspot only"
    THEN [cols |-> frame.cols, rows |-> SelectSeq(frame.rows, LAMBDA r : r.p_hotspot_next >= ht)]
    ELSE IF lm = "Mobility anomaly only"
    THEN [cols |-> frame.cols, rows |-> SelectSeq(frame.rows, LAMBDA r : r.anomaly_prob_norm >= at)]
    ELSE IF lm = "Combined risk"
    THEN [cols |-> frame.cols, rows |-> SelectSeq(frame.rows, LAMBDA r : r.p_hotspot_next >= ht /\ r.anomaly_prob_norm >= at)]
    ELSE frame

\* weight_field of the heatmap
weight_field(lm) ==
    IF lm = "Hotspot only" THEN "p_hotspot_next"
    ELSE IF lm = "Mobility anomaly only" THEN "anomaly_prob_norm"
    ELSE "compound_risk"

\* a compound score averaged instead of multiplied
compound_risk_average(frame, lm) ==
    IF lm = "Hotspot only" \/ lm = "Mobility anomaly only" THEN frame
    ELSE [cols |-> frame.cols \o <<"compound_risk">>,
          rows |-> [i \in 1..Len(frame.rows) |->
                      frame.rows[i] @@
                      [compound_risk |-> 50 * (frame.rows[i].p_hotspot_next
                                               + frame.rows[i].anomaly_prob_norm)]]]

\* df_view["compound_risk"] = p_hotspot_next * anomaly_prob_norm, in the else branch
compound_risk(frame, lm) ==
    IF lm = "Hotspot only" \/ lm = "Mobility anomaly only" THEN frame
    ELSE [cols |-> frame.cols \o <<"compound_risk">>,
          rows |-> [i \in 1..Len(frame.rows) |->
                      frame.rows[i] @@
                      [compound_risk |-> frame.rows[i].p_hotspot_next
                                         * frame.rows[i].anomaly_prob_norm]]]

RECURSIVE sum(_)
sum(s) == IF s = <<>> THEN 0 ELSE Head(s) + sum(Tail(s))

\* Series.mean(): NaN skipped, NaN (den = 0) when nothing is left
mean(frame, col) ==
    LET vals == SelectSeq([i \in 1..Len(frame.rows) |-> frame.rows[i][col]],
                          LAMBDA v : v # NaN)
    IN  [num |-> sum(vals), den |-> Len(vals)]

\* center_lat = df["lat"].mean(); center_lon = df["lon"].mean()
mean_center(frame) == [lat |-> mean(frame, "lat"), lon |-> mean(frame, "lon")]

\* display_cols, with compound_risk appended when the view has it
display_cols(frame) ==
    <<"cell_id", "mid_date", "p_hotspot_next", "anomaly_prob_norm">>
    \o (IF "compound_risk" \in Range(frame.cols) THEN <<"compound_risk">> ELSE <<>>)

\* frame[cols]
select(frame, cols) ==
    [cols |-> cols,
     rows |-> [i \in 1..Len(frame.rows) |-> [c \in Range(cols) |-> frame.rows[i][c]]]]

\* st.dataframe(df_view[display_cols].sort_values("p_hotspot_next", ascending=False).head(30))
table_shown1(frame) ==
    head(sort_values(select(frame, display_cols(frame)), "p_hotspot_next"), HeadRows1)

\* st.download_button(..., df_view.to_csv(index=False), ...)
download_data1(frame) == to_csv(frame)

script1(L, ht, at, lm) ==
    LET gdf1 == with_lonlat(L.gdf_points)
        df1 == merge(L.df_table, gdf1)
        df_view == compound_risk(threshold_filter1(df1, lm, ht, at), lm)
    IN  [gdf |-> gdf1,
         df |-> df1,
         view |-> df_view,
         center |-> mean_center(df1),
         layers |-> << HeatmapLayer(weight_field(lm)) >>,
         flagged |-> 0,
         shown |-> table_shown1(df_view),
         download |-> download_data1(df_view)]


-----------------------------------------------------------------------------
(* The inputs: the files a county can have, the positions a slider can take *)

Apps == {"streamlit_app", "streamlit1_app"}

\* st.sidebar.slider(label, 0.1, 0.9, default, 0.05)
SliderPositions ==
    {SliderMin + SliderStep * k : k \in 0..((SliderMax - SliderMin) \div SliderStep)}

\* the positions the modelled user moves a slider to: both ends and both defaults
Thresholds ==
    {t \in SliderPositions :
        t \in {SliderMin, DefaultAnomalyThreshold, DefaultHotspotThreshold, SliderMax}}

PVals == {20, 60}
AVals == {30, 50}
GeoPVals == {50, 85}

\* every cell_id names one grid cell, whose centre is its point geometry:
\* cells 1, 3, 5, ... lie in the western column, the others in the eastern one
SiteOf(id) == << 71 + 2 * ((id - 1) % 2), 5 + 2 * (((id - 1) \div 2) % 2) >>

\* two polygons: the western column, and its southern cell (inside the first)
West == {<<71, 5>>, <<71, 7>>}
SouthWest == {<<71, 5>>}

\* <county>_hotspot_forecast.csv / <county>_hotspot_enhanced.csv: one row per cell_id
CsvHeader(a) ==
    IF a = "streamlit_app"
    THEN <<"cell_id", "mid_date", "p_hotspot_next">>
    ELSE <<"cell_id", "mid_date", "p_hotspot_next", "anomaly_prob_norm">>

CsvLines(a) ==
    UNION { IF a = "streamlit_app"
            THEN {[i \in 1..n |-> <<i, 1, f[i]>>] : f \in [1..n -> PVals]}
            ELSE {[i \in 1..n |-> <<i, 1, f[i][1], f[i][2]>>] : f \in [1..n -> PVals \X AVals]}
          : n \in 0..MaxCells }

CsvFiles(a) ==
    {MissingCsv} \cup
    {[state |-> "ok", header |-> CsvHeader(a), lines |-> ls] : ls \in CsvLines(a)}

\* <county>_hotspot_forecast.geojson: any rows, also several for one cell_id;
\* streamlit1_app reads only cell_id and the geometry of it
Features(a) ==
    {[cell_id |-> id, p_hotspot_next |-> p, geometry |-> SiteOf(id)] :
        id \in 1..MaxCells, p \in IF a = "streamlit_app" THEN GeoPVals ELSE {85}}

GeojsonFiles(a) ==
    {MissingGeojson} \cup
    {[state |-> "ok", features |-> fs] :
        fs \in {s \in UNION {[1..n -> Features(a)] : n \in 0..MaxGeoRows} :
                  \A i \in 1..(Len(s) - 1) : s[i].cell_id <= s[i + 1].cell_id}}

\* <county>_boundary.geojson: absent, unreadable, or a list of polygon features
\* (streamlit1_app loads the boundary and never reads it again)
BoundaryFiles(a) ==
    {[state |-> "missing", features |-> <<>>],
     [state |-> "ok", features |-> <<West>>]}
    \cup (IF a = "streamlit_app"
          THEN {[state |-> "unreadable", features |-> <<>>],
                [state |-> "ok", features |-> <<>>],
                [state |-> "ok", features |-> <<West, SouthWest>>]}
          ELSE {})

FilesOf(a) ==
    [csv : CsvFiles(a), geojson : GeojsonFiles(a), boundary : BoundaryFiles(a)]

-----------------------------------------------------------------------------
(* The session *)

NoDownload == [header |-> <<>>, lines |-> <<>>]

\* a script body that works on the cached frames in place
cached_in_place(L, gdf1, df1) == [L EXCEPT !.gdf_points = gdf1, !.df_table = df1]

\* the cached value after the script body has run on it: to_crs(...).copy(),
\* merge(), df.copy() and frame[mask] all build new frames
cached_after_run(L, gdf1, df1) == L

Init ==
    /\ app \in Apps
    /\ files \in [COUNTIES -> FilesOf(app)]
    /\ cache = [c \in COUNTIES |-> NotLoaded]
    /\ county = "Wajir"
    /\ threshold = DefaultThreshold
    /\ mode = "Heatmap (smooth)"
    /\ hotspot_threshold = DefaultHotspotThreshold
    /\ anomaly_threshold = DefaultAnomalyThreshold
    /\ layer_mode = "Hotspot only"
    /\ status = "init"
    /\ gdf = EmptyFrame
    /\ df = EmptyFrame
    /\ view = EmptyFrame
    /\ center = NoCenter
    /\ layers = <<>>
    /\ flagged = 0
    /\ shown = EmptyFrame
    /\ download = NoDownload

\* one run of the script, top to bottom, with the widget values given
Run(c, t, style, ht, at, lm) ==
    \E L \in {IF cache[c].loaded THEN cache[c]
              ELSE IF app = "streamlit_app" THEN load_data(files[c])
              ELSE load_data1(files[c])} :
        /\ county' = c
        /\ threshold' = t
        /\ mode' = style
        /\ hotspot_threshold' = ht
        /\ anomaly_threshold' = at
        /\ layer_mode' = lm
        /\ UNCHANGED <<app, files>>
        /\ IF L.raised
           THEN /\ status' = "error"
                /\ cache' = cache
                /\ gdf' = EmptyFrame
                /\ df' = EmptyFrame
                /\ view' = EmptyFrame
                /\ center' = NoCenter
                /\ layers' = <<>>
                /\ flagged' = 0
                /\ shown' = EmptyFrame
                /\ download' = NoDownload
           ELSE \E out \in {IF app = "streamlit_app"
                            THEN script(L, t, style)
                            ELSE script1(L, ht, at, lm)} :
                    /\ status' = "rendered"
                    /\ cache' = [cache EXCEPT ![c] = cached_after_run(L, out.gdf, out.df)]
                    /\ gdf' = out.gdf
                    /\ df' = out.df
                    /\ view' = out.view
                    /\ center' = out.center
                    /\ layers' = out.layers
                    /\ flagged' = out.flagged
                    /\ shown' = out.shown
                    /\ download' = out.download

\* the first run when the page is opened
Open ==
    /\ status = "init"
    /\ Run(county, threshold, mode, hotspot_threshold, anomaly_threshold, layer_mode)

\* a rerun with the widgets as they are (the county selectbox has one option)
Rerun ==
    /\ status # "init"
    /\ Run(county, threshold, mode, hotspot_threshold, anomaly_threshold, layer_mode)

SetThreshold(t) ==
    /\ app = "streamlit_app"
    /\ status = "rendered"
    /\ t # threshold
    /\ Run(county, t, mode, hotspot_threshold, anomaly_threshold, layer_mode)

SetMapStyle(style) ==
    /\ app = "streamlit_app"
    /\ status = "rendered"
    /\ style # mode
    /\ Run(county, threshold, style, hotspot_threshold, anomaly_threshold, layer_mode)

SetHotspotThreshold(ht) ==
    /\ app = "streamlit1_app"
    /\ status = "rendered"
    /\ ht # hotspot_threshold
    /\ Run(county, threshold, mode, ht, anomaly_threshold, layer_mode)

SetAnomalyThreshold(at) ==
    /\ app = "streamlit1_app"
    /\ status = "rendered"
    /\ at # anomaly_threshold
    /\ Run(county, threshold, mode, hotspot_threshold, at, layer_mode)

SetLayerMode(lm) ==
    /\ app = "streamlit1_app"
    /\ status = "rendered"
    /\ lm # layer_mode
    /\ Run(county, threshold, mode, hotspot_threshold, anomaly_threshold, lm)

Next ==
    \/ Open
    \/ Rerun
    \/ \E t \in Thresholds : SetThreshold(t)
    \/ \E style \in MapStyles : SetMapStyle(style)
    \/ \E ht \in Thresholds : SetHotspotThreshold(ht)
    \/ \E at \in Thresholds : SetAnomalyThreshold(at)
    \/ \E lm \in ViewModes : SetLayerMode(lm)

Spec == Init /\ [][Next]_vars


-----------------------------------------------------------------------------
(* Helpers of the properties *)

Rendered(a) == app = a /\ status = "rendered"

CellIds(frame) == {frame.rows[i].cell_id : i \in DOMAIN frame.rows}

Count(rows, r) == Len(SelectSeq(rows, LAMBDA x : x = r))

\* equality of two fractions; a NaN (den = 0) equals nothing
RatEq(x, y) == x.den # 0 /\ y.den # 0 /\ x.num * y.den = y.num * x.den

HexDigits == <<"0","1","2","3","4","5","6","7","8","9","A","B","C","D","E","F">>
HexValue(c) == (CHOOSE n \in 1..16 : HexDigits[n] = c) - 1

\* the RGB triple a CSS colour #RRGGBB stands for
HexRGB(bg) ==
    << 16 * HexValue(bg[1]) + HexValue(bg[2]),
       16 * HexValue(bg[3]) + HexValue(bg[4]),
       16 * HexValue(bg[5]) + HexValue(bg[6]) >>

LegendBucket(p) == CHOOSE k \in 1..Len(Legend) : Legend[k].lo <= p /\ p < Legend[k].hi

-----------------------------------------------------------------------------
(* C1 *)

\* C1: in "Combined risk" mode the cell_ids of the filtered view are exactly the
\* cell_ids "Hotspot only" keeps at the hotspot threshold intersected with those
\* "Mobility anomaly only" keeps at the anomaly threshold, and every kept row
\* has p_hotspot_next >= hotspot_threshold and anomaly_prob_norm >= anomaly_threshold.
C1_CombinedIsIntersection ==
    (Rendered("streamlit1_app") /\ layer_mode = "Combined risk") =>
        /\ CellIds(view) =
              CellIds(threshold_filter1(df, "Hotspot only",
                                        hotspot_threshold, anomaly_threshold))
              \cap
              CellIds(threshold_filter1(df, "Mobility anomaly only",
                                        hotspot_threshold, anomaly_threshold))
        /\ \A i \in DOMAIN view.rows :
              /\ view.rows[i].p_hotspot_next >= hotspot_threshold
              /\ view.rows[i].anomaly_prob_norm >= anomaly_threshold
        /\ \A i \in DOMAIN df.rows :
              (/\ df.rows[i].p_hotspot_next >= hotspot_threshold
               /\ df.rows[i].anomaly_prob_norm >= anomaly_threshold)
              => df.rows[i].cell_id \in CellIds(view)

\* a combined view that keeps a cell at exactly both thresholds and drops a cell
\* that passes only one of them
C1_Witness ==
    /\ Rendered("streamlit1_app")
    /\ layer_mode = "Combined risk"
    /\ \E i \in DOMAIN view.rows :
          /\ view.rows[i].p_hotspot_next = hotspot_threshold
          /\ view.rows[i].anomaly_prob_norm = anomaly_threshold
    /\ \E i \in DOMAIN df.rows :
          /\ df.rows[i].p_hotspot_next >= hotspot_threshold
          /\ df.rows[i].anomaly_prob_norm < anomaly_threshold


-----------------------------------------------------------------------------
(* C2 *)

\* C2: the downloaded CSV, parsed again, has exactly the columns of the table
\* shown and exactly the rows that passed the threshold filter; in
\* streamlit_app its row count is the "flagged" count of the subheader.
C2_DownloadIsFilteredView ==
    LET parsed == read_csv(download)
    IN  /\ Rendered("streamlit_app") =>
              /\ Len(parsed.rows) = flagged
              /\ \A i \in DOMAIN parsed.rows :
                    parsed.rows[i].p_hotspot_next >= threshold
              /\ parsed.cols = shown.cols
        /\ Rendered("streamlit1_app") =>
              /\ parsed.cols = shown.cols
              /\ parsed.rows = select(view, shown.cols).rows

-----------------------------------------------------------------------------
(* C3 *)

RequiredOk == files[county].csv.state = "ok" /\ files[county].geojson.state = "ok"

\* C3: a run ends in an error exactly when the csv or the point geojson cannot
\* be read; with the boundary file missing or unreadable and the required
\* files readable, load_data returns boundary = None and the page renders:
\* in streamlit_app the spatial filter keeps every point, no PolygonLayer is
\* drawn and the view is centred on the points' bounding box (on the default
\* extent when there are no points).
C3_OnlyRequiredLoadFails ==
    status # "init" =>
        /\ status = "error" <=> ~RequiredOk
        /\ (RequiredOk /\ files[county].boundary.state # "ok") =>
              /\ status = "rendered"
              /\ cache[county].loaded
              /\ ~cache[county].boundary.available
              /\ Len(layers) = 1
              /\ layers[1].type # "PolygonLayer"
              /\ app = "streamlit_app" =>
                    /\ gdf = with_lonlat(read_file(files[county].geojson))
                    /\ center = bounds_center(IF gdf.rows = <<>> THEN DefaultBounds
                                              ELSE point_bounds(gdf.rows))

\* streamlit_app rendered without a boundary file, on points that a boundary
\* would have filtered
C3_Witness ==
    /\ Rendered("streamlit_app")
    /\ files[county].boundary.state = "missing"
    /\ Len(gdf.rows) = 2
    /\ layers[1].type = "GridCellLayer"

-----------------------------------------------------------------------------
(* C4 *)

\* C4: after the merge every row of the csv is in df, each cell_id appears at
\* most once in df, and a row of df has lon/lat exactly when the geometry file
\* has a row for its cell_id.
C4_MergeKeepsOneRowPerCell ==
    Rendered("streamlit1_app") =>
        /\ CellIds(df) = CellIds(read_csv(files[county].csv))
        /\ \A i, j \in DOMAIN df.rows :
              df.rows[i].cell_id = df.rows[j].cell_id => i = j
        /\ \A i \in DOMAIN df.rows :
              (df.rows[i].lon # NaN /\ df.rows[i].lat # NaN)
              <=> df.rows[i].cell_id \in CellIds(gdf)


-----------------------------------------------------------------------------
(* C5 *)

AllPoints == with_lonlat(read_file(files[county].geojson))

\* C5: in streamlit_app, with a boundary, the filtered points are the input
\* points that lie within the union of the boundary's parts, each as often as
\* the input has it and never more (none added, none duplicated, none outside
\* kept); with no boundary (None or empty) the points are returned unchanged.
C5_SpatialFilterSubset ==
    Rendered("streamlit_app") =>
        IF files[county].boundary.state = "ok" /\ files[county].boundary.features # <<>>
        THEN /\ \A i \in DOMAIN gdf.rows :
                  /\ gdf.rows[i] \in Range(AllPoints.rows)
                  /\ gdf.rows[i].geometry \in UNION Range(files[county].boundary.features)
             /\ \A r \in Range(AllPoints.rows) :
                  Count(gdf.rows, r) =
                     IF r.geometry \in UNION Range(files[county].boundary.features)
                     THEN Count(AllPoints.rows, r) ELSE 0
        ELSE gdf = AllPoints

\* a boundary of two overlapping parts, a point inside both kept and a point
\* outside dropped
C5_Witness ==
    /\ Rendered("streamlit_app")
    /\ Len(files[county].boundary.features) = 2
    /\ \E r \in Range(AllPoints.rows) :
          /\ \A k \in 1..2 : r.geometry \in files[county].boundary.features[k]
          /\ r \in Range(gdf.rows)
    /\ \E r \in Range(AllPoints.rows) : r \notin Range(gdf.rows)

-----------------------------------------------------------------------------
(* C6 *)

\* the centre of the three-level fallback: boundary box, else box of all the
\* points, else the fixed extent
FallbackCenter ==
    bounds_center(
        IF has_boundary(cache[county].boundary)
        THEN polygon_bounds(cache[county].boundary.features)
        ELSE IF AllPoints.rows # <<>> THEN point_bounds(AllPoints.rows)
        ELSE DefaultBounds)

\* C6: in both dashboards the initial view is centred on the midpoint of the
\* boundary's bounding box, else of the bounding box of all the points, else
\* of the fixed fallback extent.
C6_CenterFallback ==
    status = "rendered" =>
        /\ RatEq(center.lat, FallbackCenter.lat)
        /\ RatEq(center.lon, FallbackCenter.lon)

-----------------------------------------------------------------------------
(* C7 *)

\* the rows that pass the current threshold filter
PassesFilter(r) ==
    IF app = "streamlit_app" THEN r.p_hotspot_next >= threshold
    ELSE IF layer_mode = "Hotspot only" THEN r.p_hotspot_next >= hotspot_threshold
    ELSE IF layer_mode = "Mobility anomaly only"
    THEN r.anomaly_prob_norm >= anomaly_threshold
    ELSE r.p_hotspot_next >= hotspot_threshold /\ r.anomaly_prob_norm >= anomaly_threshold

RowCap == IF app = "streamlit_app" THEN HeadRows ELSE HeadRows1

\* C7: every row of the table shown passes the current threshold filter, the
\* rows are in non-increasing order of p_hotspot_next, there are at most the
\* row cap of them and as many as the filtered view has up to the cap, none
\* of them ranks below a row of the view left out, and compound_risk is a
\* column of the table exactly in combined mode.
C7_TableShowsFilteredView ==
    status = "rendered" =>
        /\ \A i \in DOMAIN shown.rows : PassesFilter(shown.rows[i])
        /\ \A i, j \in DOMAIN shown.rows :
              i < j => shown.rows[i].p_hotspot_next >= shown.rows[j].p_hotspot_next
        /\ Len(shown.rows) = (IF Len(view.rows) < RowCap THEN Len(view.rows) ELSE RowCap)
        /\ ("compound_risk" \in Range(shown.cols))
              <=> (app = "streamlit1_app" /\ layer_mode = "Combined risk")

-----------------------------------------------------------------------------
(* C8 *)

\* C8: in grid-cell mode the RGB of every cell's fill colour is the colour the
\* legend shows for the bucket of its p_hotspot_next (edges 0.40, 0.60, 0.80,
\* lower edge inclusive), and the four legend colours differ pairwise.
C8_FillMatchesLegend ==
    (Rendered("streamlit_app") /\ mode = "Grid cells (squares)") =>
        /\ \A i \in DOMAIN view.rows :
              SubSeq(layers[1].fill[i], 1, 3) =
                 HexRGB(Legend[LegendBucket(view.rows[i].p_hotspot_next)].bg)
        /\ \A k, l \in DOMAIN Legend : k # l => HexRGB(Legend[k].bg) # HexRGB(Legend[l].bg)

-----------------------------------------------------------------------------
(* C9 *)

\* C9: the view has a compound_risk column exactly in combined mode; there
\* every row's compound_risk is p_hotspot_next * anomaly_prob_norm, lies in
\* [0, 1] and is at most min(p_hotspot_next, anomaly_prob_norm); in the other
\* two modes no row carries a compound_risk.
C9_CompoundIsProduct ==
    Rendered("streamlit1_app") =>
        /\ ("compound_risk" \in Range(view.cols)) <=> (layer_mode = "Combined risk")
        /\ \A i \in DOMAIN view.rows :
              LET r == view.rows[i]
              IN  IF layer_mode = "Combined risk"
                  THEN /\ r.compound_risk = r.p_hotspot_next * r.anomaly_prob_norm
                       /\ 0 <= r.compound_risk
                       /\ r.compound_risk <= 100 * 100
                       /\ r.compound_risk <= 100 * r.p_hotspot_next
                       /\ r.compound_risk <= 100 * r.anomaly_prob_norm
                  ELSE "compound_risk" \notin DOMAIN r

\* a combined view with a surviving row of 0.6 * 0.5 = 0.30
C9_Witness ==
    /\ Rendered("streamlit1_app")
    /\ layer_mode = "Combined risk"
    /\ \E i \in DOMAIN view.rows :
          /\ view.rows[i].p_hotspot_next = 60
          /\ view.rows[i].anomaly_prob_norm = 50
          /\ view.rows[i].compound_risk = 3000

-----------------------------------------------------------------------------
(* C10 *)

FreshLoad ==
    IF app = "streamlit_app" THEN load_data(files[county]) ELSE load_data1(files[county])

FreshRun ==
    IF app = "streamlit_app" THEN script(FreshLoad, threshold, mode)
    ELSE script1(FreshLoad, hotspot_threshold, anomaly_threshold, layer_mode)

====
